---- MODULE Spec2Model ----
(***************************************************************************)
(* Model of three leaf artifacts of the MLflow repository:                 *)
(*   - the generated icon components PlusMinusSquareIcon and FileIcon,     *)
(*   - the GraphQL codegen configuration graphql-codegen.ts,               *)
(*   - the documentation sidebar docs/sidebars.ts.                         *)
(* A JSX element is a record [type, props] (plus ref where one is given);  *)
(* a props object is a function from attribute names to values; null is    *)
(* the string "null"; a function component is named by its identifier.     *)
(* Characters outside ASCII in string literals are written U+XXXX.         *)
(***************************************************************************)
EXTENDS Integers, Sequences, FiniteSets, TLC

VARIABLES
  renders,        \* render invocations so far: [component, props, ref, output]
  sidebarsEvals,  \* value exported by each evaluation of docs/sidebars.ts
  configEvals     \* value exported by each evaluation of graphql-codegen.ts

vars == <<renders, sidebarsEvals, configEvals>>

(* ------------------------------ bounds --------------------------------- *)
(* Total number of render invocations and module evaluations in a run. *)
MaxSteps == 3

(* ------------------------- JSX / object spread -------------------------- *)
(* { ...a, ...b }: a later property overrides an earlier one.              *)
Spread(a, b) ==
  b @@ a

Without(obj, key) ==
  [k \in DOMAIN obj \ {key} |-> obj[k]]

(* <type {...config}>children</type>: explicit children replace any        *)
(* `children` entry of the attributes.                                     *)
JsxWithChildren(type, config, children) ==
  [type |-> type, props |-> Spread(config, [children |-> children])]

(* <type {...config} />: `ref` is taken out of the attributes and kept on  *)
(* the element, everything else becomes the element's props.               *)
JsxWithRef(type, config) ==
  [type |-> type, ref |-> config.ref, props |-> Without(config, "ref")]

(* --------------------------- icon renderers ---------------------------- *)
SvgDefaults ==
  [xmlns |-> "http://www.w3.org/2000/svg", width |-> "1em", height |-> "1em",
   fill |-> "none", viewBox |-> "0 0 16 16"]

PlusMinusSquarePaths ==
  << [type |-> "path",
      props |-> [fill |-> "currentColor",
                 d |-> "M7.25 4.25V6H5.5v1.5h1.75v1.75h1.5V7.5h1.75V6H8.75V4.25zM10.5 10.5h-5V12h5z"]],
     [type |-> "path",
      props |-> [fill |-> "currentColor", fillRule |-> "evenodd",
                 d |-> "M1.75 1a.75.75 0 0 0-.75.75v12.5c0 .414.336.75.75.75h12.5a.75.75 0 0 0 .75-.75V1.75a.75.75 0 0 0-.75-.75zm.75 12.5v-11h11v11z",
                 clipRule |-> "evenodd"]] >>

FilePaths ==
  << [type |-> "path",
      props |-> [fill |-> "currentColor", fillRule |-> "evenodd",
                 d |-> "M2 1.75A.75.75 0 0 1 2.75 1h6a.75.75 0 0 1 .53.22l4.5 4.5c.141.14.22.331.22.53v9a.75.75 0 0 1-.75.75H2.75a.75.75 0 0 1-.75-.75zm1.5.75v12h9V7H8.75A.75.75 0 0 1 8 6.25V2.5zm6 1.06 1.94 1.94H9.5z",
                 clipRule |-> "evenodd"]] >>

(* Mutants of SvgPlusMinusSquareIcon: defaults written after the spread;   *)
(* defaults kept in a shared object that each render assigns into.         *)
SvgPlusMinusSquareIconDefaultsLast(props) ==
  JsxWithChildren("svg", Spread(props, SvgDefaults), PlusMinusSquarePaths)

SvgPlusMinusSquareIconSharedDefaults(props) ==
  JsxWithChildren("svg",
    Spread(Spread(SvgDefaults,
                  IF renders = <<>> THEN <<>>
                  ELSE Without(renders[Len(renders)].props, "component")),
           props),
    PlusMinusSquarePaths)

SvgPlusMinusSquareIcon(props) ==
  JsxWithChildren("svg", Spread(SvgDefaults, props), PlusMinusSquarePaths)

SvgFileIcon(props) ==
  JsxWithChildren("svg", Spread(SvgDefaults, props), FilePaths)

(* Mutant of PlusMinusSquareIconRender: component written before the spread. *)
PlusMinusSquareIconRenderComponentFirst(props, forwardedRef) ==
  JsxWithRef("Icon",
    Spread(Spread([ref |-> forwardedRef], [component |-> "SvgPlusMinusSquareIcon"]), props))

(* The render function handed to forwardRef. *)
PlusMinusSquareIconRender(props, forwardedRef) ==
  JsxWithRef("Icon",
    Spread(Spread([ref |-> forwardedRef], props), [component |-> "SvgPlusMinusSquareIcon"]))

FileIconRender(props, forwardedRef) ==
  JsxWithRef("Icon",
    Spread(Spread([ref |-> forwardedRef], props), [component |-> "SvgFileIcon"]))

(* Caller inputs.  SVG attributes: one that has a default (width), one     *)
(* that has none (className), and children.  Icon props: className and a   *)
(* caller-chosen component.  forwardRef never passes `ref` inside props.   *)
SvgAttrValue ==
  [width |-> "24px", className |-> "big",
   children |-> << [type |-> "circle", props |-> [r |-> "4"]] >>]

IconPropValue ==
  [className |-> "big", component |-> "SvgOtherIcon"]

SvgPropsSet ==
  { [k \in K |-> SvgAttrValue[k]] : K \in SUBSET DOMAIN SvgAttrValue }

IconPropsSet ==
  { [k \in K |-> IconPropValue[k]] : K \in SUBSET DOMAIN IconPropValue }

Refs ==
  {"null", "spanRef"}

(* ------------------------ graphql-codegen.ts --------------------------- *)
(* Mutant of config: the two plugins listed in the opposite order.         *)
configPluginsSwapped ==
  [schema |-> << "./src/graphql/autogenerated_schema.gql" >>,
   documents |-> << "src/**/!(*.test).js*", "src/**/!(*.test).ts*" >>,
   config |->
     [avoidOptionals |-> [field |-> TRUE],
      namingConvention |-> [enumValues |-> "change-case-all#constantCase"],
      nonOptionalTypename |-> TRUE,
      omitOperationSuffix |-> TRUE,
      onlyOperationTypes |-> TRUE,
      scalars |->
        [GraphQLAnyValue |-> "any", Long |-> "number", LongString |-> "string",
         StringMap |-> "Record<string, string>", JSON |-> "any",
         WellKnownFieldMask |-> "any", WellKnownTimestamp |-> "any",
         WellKnownDuration |-> "any"],
      skipTypeNameForRoot |-> TRUE,
      strictScalars |-> TRUE],
   generates |->
     [f \in {"src/graphql/__generated__/graphql.ts"} |->
        [plugins |-> << "typescript-operations",
                        "graphql-codegen-typescript-operation-types" >>]]]

config ==
  [schema |-> << "./src/graphql/autogenerated_schema.gql" >>,
   documents |-> << "src/**/!(*.test).js*", "src/**/!(*.test).ts*" >>,
   config |->
     [avoidOptionals |-> [field |-> TRUE],
      namingConvention |-> [enumValues |-> "change-case-all#constantCase"],
      nonOptionalTypename |-> TRUE,
      omitOperationSuffix |-> TRUE,
      onlyOperationTypes |-> TRUE,
      scalars |->
        [GraphQLAnyValue |-> "any", Long |-> "number", LongString |-> "string",
         StringMap |-> "Record<string, string>", JSON |-> "any",
         WellKnownFieldMask |-> "any", WellKnownTimestamp |-> "any",
         WellKnownDuration |-> "any"],
      skipTypeNameForRoot |-> TRUE,
      strictScalars |-> TRUE],
   generates |->
     [f \in {"src/graphql/__generated__/graphql.ts"} |->
        [plugins |-> << "graphql-codegen-typescript-operation-types",
                        "typescript-operations" >>]]]

(* --------------------------- docs/sidebars.ts -------------------------- *)
(* apiReferencePrefix is imported from ./docusaurusConfigUtils; it takes   *)
(* no argument, so what it returns is fixed by the build environment.      *)
Environments ==
  {"https://mlflow.org/docs/latest/", "/docs/latest/"}

apiReferencePrefix(environment) ==
  environment

(* sidebars.ts lines 17-21 *)
indexDoc ==
  [type |-> "doc", id |-> "index", className |-> "sidebar-top-level-category"]

(* sidebars.ts lines 22-70 *)
gettingStarted ==
  [type |-> "category", label |-> "Getting Started", className |-> "sidebar-top-level-category", items |-> <<
      [type |-> "doc", id |-> "getting-started/intro-quickstart/index", label |-> "Quickstart"],
      [type |-> "doc", id |-> "getting-started/running-notebooks/index"],
      [type |-> "doc", id |-> "getting-started/databricks-trial/index"],
      [type |-> "category", label |-> "More Tutorials", items |-> <<
          [type |-> "doc", label |-> "Hyperparameter Tuning Tutorial", id |-> "getting-started/quickstart-2/index"],
          [type |-> "category", label |-> "Model Registry Tutorial", items |-> <<
              [type |-> "autogenerated", dirName |-> "getting-started/registering-first-model"]
            >>],
          [type |-> "doc", id |-> "getting-started/tracking-server-overview/index"]
        >>]
    >>, link |-> [type |-> "doc", id |-> "getting-started/index"]]

(* sidebars.ts lines 71-258 *)
machineLearning ==
  [type |-> "category", label |-> "Machine Learning U+1F9E0", className |-> "sidebar-top-level-category", collapsed |-> FALSE, items |-> <<
      [type |-> "category", label |-> "LLM / GenAI", items |-> <<
          [type |-> "doc", label |-> "Overview", id |-> "llms/index"],
          [type |-> "category", label |-> "Integrations", items |-> <<
              [type |-> "category", label |-> "OpenAI", items |-> <<
                  [type |-> "autogenerated", dirName |-> "llms/openai"]
                >>, link |-> [type |-> "doc", id |-> "llms/openai/index"]],
              [type |-> "category", label |-> "LangChain", items |-> <<
                  [type |-> "autogenerated", dirName |-> "llms/langchain"]
                >>, link |-> [type |-> "doc", id |-> "llms/langchain/index"]],
              [type |-> "doc", id |-> "llms/dspy/index", label |-> "DSPy"],
              [type |-> "doc", id |-> "llms/llama-index/index", label |-> "LlamaIndex"],
              [type |-> "category", label |-> "Transformers", items |-> <<
                  [type |-> "autogenerated", dirName |-> "llms/transformers"]
                >>, link |-> [type |-> "doc", id |-> "llms/transformers/index"]],
              [type |-> "category", label |-> "Sentence Transformers", items |-> <<
                  [type |-> "autogenerated", dirName |-> "llms/sentence-transformers"]
                >>, link |-> [type |-> "doc", id |-> "llms/sentence-transformers/index"]],
              [type |-> "link", href |-> "/tracing/integrations/", label |-> "More"]
            >>],
          [type |-> "link", label |-> "Tracing (Observability)", href |-> "/tracing/"],
          [type |-> "category", label |-> "Evaluation", link |-> [type |-> "doc", id |-> "llms/llm-evaluate/index"], items |-> <<
              [type |-> "autogenerated", dirName |-> "llms/llm-evaluate"]
            >>],
          [type |-> "category", label |-> "ChatModel", items |-> <<
              [type |-> "doc", id |-> "llms/chat-model-intro/index", label |-> "What is ChatModel?"],
              [type |-> "doc", id |-> "llms/chat-model-guide/index", label |-> "Advanced Guide"],
              [type |-> "doc", id |-> "llms/custom-pyfunc-for-llms/index", label |-> "More Customization"]
            >>],
          [type |-> "category", label |-> "RAG", items |-> <<
              [type |-> "doc", id |-> "llms/rag/index", label |-> "What is RAG?"],
              [type |-> "doc", id |-> "llms/rag/notebooks/index"]
            >>],
          [type |-> "doc", label |-> "Prompt Engineering", id |-> "llms/prompt-engineering/index"]
        >>, link |-> [type |-> "doc", id |-> "llms/index"]],
      [type |-> "category", label |-> "Deep Learning", items |-> <<
          [type |-> "autogenerated", dirName |-> "deep-learning"]
        >>, link |-> [type |-> "doc", id |-> "deep-learning/index"]],
      [type |-> "category", label |-> "Traditional ML", items |-> <<
          [type |-> "autogenerated", dirName |-> "traditional-ml"]
        >>, link |-> [type |-> "doc", id |-> "traditional-ml/index"]]
    >>]

(* Mutant of build: Quickstart under MLflow Tracking listed as a doc item. *)
buildQuickstartDoc ==
  [type |-> "category", label |-> "Build U+1F528 ", className |-> "sidebar-top-level-category", collapsed |-> FALSE, items |-> <<
      [type |-> "category", label |-> "MLflow Tracking", items |-> <<
          [type |-> "doc", id |-> "tracking/index"],
          [type |-> "doc", id |-> "getting-started/intro-quickstart/index", label |-> "Quickstart"],
          [type |-> "doc", id |-> "tracking/autolog/index"],
          [type |-> "category", label |-> "Tracking Server", items |-> <<
              [type |-> "doc", id |-> "tracking/artifacts-stores/index"],
              [type |-> "doc", id |-> "tracking/backend-stores/index"],
              [type |-> "category", label |-> "Tutorials", items |-> <<
                  [type |-> "autogenerated", dirName |-> "tracking/tutorials"]
                >>]
            >>, link |-> [type |-> "doc", id |-> "tracking/server/index"]],
          [type |-> "category", label |-> "Searching Runs & Experiments", items |-> <<
              [type |-> "doc", id |-> "search-runs/index"],
              [type |-> "doc", id |-> "search-experiments/index"]
            >>],
          [type |-> "doc", id |-> "system-metrics/index"]
        >>, link |-> [type |-> "doc", id |-> "tracking/index"]],
      [type |-> "category", label |-> "MLflow Model", items |-> <<
          [type |-> "autogenerated", dirName |-> "model"]
        >>],
      [type |-> "doc", id |-> "recipes/index"]
    >>]

(* sidebars.ts lines 259-350 *)
build ==
  [type |-> "category", label |-> "Build U+1F528 ", className |-> "sidebar-top-level-category", collapsed |-> FALSE, items |-> <<
      [type |-> "category", label |-> "MLflow Tracking", items |-> <<
          [type |-> "doc", id |-> "tracking/index"],
          [type |-> "link", href |-> "/getting-started/intro-quickstart/", label |-> "Quickstart"],
          [type |-> "doc", id |-> "tracking/autolog/index"],
          [type |-> "category", label |-> "Tracking Server", items |-> <<
              [type |-> "doc", id |-> "tracking/artifacts-stores/index"],
              [type |-> "doc", id |-> "tracking/backend-stores/index"],
              [type |-> "category", label |-> "Tutorials", items |-> <<
                  [type |-> "autogenerated", dirName |-> "tracking/tutorials"]
                >>]
            >>, link |-> [type |-> "doc", id |-> "tracking/server/index"]],
          [type |-> "category", label |-> "Searching Runs & Experiments", items |-> <<
              [type |-> "doc", id |-> "search-runs/index"],
              [type |-> "doc", id |-> "search-experiments/index"]
            >>],
          [type |-> "doc", id |-> "system-metrics/index"]
        >>, link |-> [type |-> "doc", id |-> "tracking/index"]],
      [type |-> "category", label |-> "MLflow Model", items |-> <<
          [type |-> "autogenerated", dirName |-> "model"]
        >>],
      [type |-> "doc", id |-> "recipes/index"]
    >>]

(* sidebars.ts lines 351-382 *)
evaluateAndMonitor ==
  [type |-> "category", label |-> "Evaluate & Monitor U+1F4CA", className |-> "sidebar-top-level-category", collapsed |-> FALSE, items |-> <<
      [type |-> "doc", id |-> "model-evaluation/index", label |-> "MLflow Evaluation"],
      [type |-> "category", label |-> "MLflow Tracing (Observability)", items |-> <<
          [type |-> "autogenerated", dirName |-> "tracing"]
        >>, link |-> [type |-> "doc", id |-> "tracing/index"]],
      [type |-> "doc", id |-> "dataset/index", label |-> "MLflow Dataset"]
    >>]

(* Mutant of deploy: the AI Gateway category links to the LLM overview.    *)
deployGatewayLinksOverview ==
  [type |-> "category", label |-> "Deploy U+1F680", className |-> "sidebar-top-level-category", collapsed |-> FALSE, items |-> <<
      [type |-> "doc", id |-> "model-registry/index"],
      [type |-> "category", label |-> "MLflow Serving", items |-> <<
          [type |-> "autogenerated", dirName |-> "deployment"]
        >>],
      [type |-> "category", label |-> "MLflow AI Gateway", link |-> [type |-> "doc", id |-> "llms/index"], items |-> <<
          [type |-> "autogenerated", dirName |-> "llms/deployments"]
        >>]
    >>]

(* sidebars.ts lines 383-418 *)
deploy ==
  [type |-> "category", label |-> "Deploy U+1F680", className |-> "sidebar-top-level-category", collapsed |-> FALSE, items |-> <<
      [type |-> "doc", id |-> "model-registry/index"],
      [type |-> "category", label |-> "MLflow Serving", items |-> <<
          [type |-> "autogenerated", dirName |-> "deployment"]
        >>],
      [type |-> "category", label |-> "MLflow AI Gateway", link |-> [type |-> "doc", id |-> "llms/deployments/index"], items |-> <<
          [type |-> "autogenerated", dirName |-> "llms/deployments"]
        >>]
    >>]

(* sidebars.ts lines 419-446 *)
teamCollaboration ==
  [type |-> "category", label |-> "Team Collaboration U+1F465", className |-> "sidebar-top-level-category", collapsed |-> TRUE, items |-> <<
      [type |-> "link", href |-> "/tracking/#tracking-setup", label |-> "Self-Hosting"],
      [type |-> "link", href |-> "/#running-mlflow-anywhere", label |-> "Managed Services"],
      [type |-> "doc", id |-> "auth/index", label |-> "Access Control"],
      [type |-> "doc", id |-> "projects/index", label |-> "MLflow Projects"]
    >>]

(* Mutant of apiReferences: the R API link is written without the prefix.  *)
apiReferencesRApiUnprefixed(prefix) ==
  [type |-> "category", label |-> "API References", className |-> "sidebar-top-level-category", collapsed |-> TRUE, items |-> <<
      [type |-> "link", label |-> "Python API", href |-> prefix \o "api_reference/python_api/index.html"],
      [type |-> "link", label |-> "Java API", href |-> prefix \o "api_reference/java_api/index.html"],
      [type |-> "link", label |-> "R API", href |-> "api_reference/R-api.html"],
      [type |-> "link", label |-> "REST API", href |-> prefix \o "api_reference/rest-api.html"],
      [type |-> "link", label |-> "CLI", href |-> prefix \o "cli.html"]
    >>]

(* sidebars.ts lines 447-479 *)
apiReferences(prefix) ==
  [type |-> "category", label |-> "API References", className |-> "sidebar-top-level-category", collapsed |-> TRUE, items |-> <<
      [type |-> "link", label |-> "Python API", href |-> prefix \o "api_reference/python_api/index.html"],
      [type |-> "link", label |-> "Java API", href |-> prefix \o "api_reference/java_api/index.html"],
      [type |-> "link", label |-> "R API", href |-> prefix \o "api_reference/R-api.html"],
      [type |-> "link", label |-> "REST API", href |-> prefix \o "api_reference/rest-api.html"],
      [type |-> "link", label |-> "CLI", href |-> prefix \o "cli.html"]
    >>]

(* Mutant of more: the category is left without items.                     *)
moreNoItems ==
  [type |-> "category", label |-> "More", collapsed |-> TRUE, className |-> "sidebar-top-level-category", items |-> << >>]

(* sidebars.ts lines 480-501 *)
more ==
  [type |-> "category", label |-> "More", collapsed |-> TRUE, className |-> "sidebar-top-level-category", items |-> <<
      [type |-> "link", label |-> "Contributing", href |-> "https://github.com/mlflow/mlflow/blob/master/CONTRIBUTING.md"],
      [type |-> "link", label |-> "MLflow Blogs", href |-> "https://mlflow.org/blog/index.html"],
      [type |-> "doc", id |-> "plugins/index"]
    >>]

(* Mutant of docsSidebar: Deploy and Evaluate & Monitor change places.     *)
docsSidebarDeployFirst(prefix) ==
  << indexDoc, gettingStarted, machineLearning, build, deploy,
     evaluateAndMonitor, teamCollaboration, apiReferences(prefix), more >>

docsSidebar(prefix) ==
  << indexDoc, gettingStarted, machineLearning, build, evaluateAndMonitor,
     deploy, teamCollaboration, apiReferences(prefix), more >>

sidebars(prefix) ==
  [docsSidebar |-> docsSidebar(prefix)]

(* ------------------------------ actions -------------------------------- *)
Init ==
  /\ renders = <<>>
  /\ sidebarsEvals = <<>>
  /\ configEvals = <<>>

Steps ==
  Len(renders) + Len(sidebarsEvals) + Len(configEvals)

Rendered(component, props, ref, output) ==
  /\ Steps < MaxSteps
  /\ renders' = Append(renders,
       [component |-> component, props |-> props, ref |-> ref, output |-> output])
  /\ UNCHANGED <<sidebarsEvals, configEvals>>

RenderSvgPlusMinusSquareIcon ==
  \E props \in SvgPropsSet :
    Rendered("SvgPlusMinusSquareIcon", props, "null", SvgPlusMinusSquareIcon(props))

RenderSvgFileIcon ==
  \E props \in SvgPropsSet :
    Rendered("SvgFileIcon", props, "null", SvgFileIcon(props))

RenderPlusMinusSquareIcon ==
  \E props \in IconPropsSet, forwardedRef \in Refs :
    Rendered("PlusMinusSquareIcon", props, forwardedRef,
             PlusMinusSquareIconRender(props, forwardedRef))

RenderFileIcon ==
  \E props \in IconPropsSet, forwardedRef \in Refs :
    Rendered("FileIcon", props, forwardedRef, FileIconRender(props, forwardedRef))

(* One evaluation of docs/sidebars.ts in some build environment.           *)
EvalSidebars ==
  /\ Steps < MaxSteps
  /\ \E environment \in Environments :
       sidebarsEvals' = Append(sidebarsEvals, sidebars(apiReferencePrefix(environment)))
  /\ UNCHANGED <<renders, configEvals>>

(* One evaluation of graphql-codegen.ts.                                   *)
EvalConfig ==
  /\ Steps < MaxSteps
  /\ configEvals' = Append(configEvals, config)
  /\ UNCHANGED <<renders, sidebarsEvals>>

Next ==
  \/ RenderSvgPlusMinusSquareIcon
  \/ RenderSvgFileIcon
  \/ RenderPlusMinusSquareIcon
  \/ RenderFileIcon
  \/ EvalSidebars
  \/ EvalConfig

Spec ==
  Init /\ [][Next]_vars

(* ------------------------- reading the results ------------------------- *)
RECURSIVE Nodes(_)
(* All nodes of a list of sidebar items, every depth, in document order.   *)
Nodes(items) ==
  IF items = <<>> THEN <<>>
  ELSE LET node == Head(items)
       IN  <<node>> \o (IF "items" \in DOMAIN node THEN Nodes(node.items) ELSE <<>>)
                    \o Nodes(Tail(items))

Has(node, field) ==
  field \in DOMAIN node

IsDoc(node) ==
  node.type = "doc"

IsCategory(node) ==
  node.type = "category"

HasDocLink(node) ==
  IsCategory(node) /\ Has(node, "link") /\ node.link.type = "doc"

RECURSIVE DocItemIds(_)
(* Ids of the nodes of type 'doc', in order, from a flat list of nodes.    *)
DocItemIds(nodes) ==
  IF nodes = <<>> THEN <<>>
  ELSE (IF IsDoc(Head(nodes)) THEN <<Head(nodes).id>> ELSE <<>>)
       \o DocItemIds(Tail(nodes))

RECURSIVE CategoryLinkIds(_)
(* Ids of the category link targets, in order, from a flat list of nodes.  *)
CategoryLinkIds(nodes) ==
  IF nodes = <<>> THEN <<>>
  ELSE (IF HasDocLink(Head(nodes)) THEN <<Head(nodes).link.id>> ELSE <<>>)
       \o CategoryLinkIds(Tail(nodes))

Range(seq) ==
  { seq[i] : i \in DOMAIN seq }

NoDuplicates(seq) ==
  Cardinality(Range(seq)) = Len(seq)

NodeSet(items) ==
  UNION { Range(nodes) : nodes \in {Nodes(items)} }

(* The name a node is listed under: a doc's id, otherwise its label.       *)
NodeName(node) ==
  IF IsDoc(node) THEN node.id
  ELSE IF Has(node, "label") THEN node.label
  ELSE node.dirName

SvgRenderers ==
  {"SvgPlusMinusSquareIcon", "SvgFileIcon"}

IconWrappers ==
  {"PlusMinusSquareIcon", "FileIcon"}

OwnSvg(wrapper) ==
  IF wrapper = "PlusMinusSquareIcon" THEN "SvgPlusMinusSquareIcon" ELSE "SvgFileIcon"

EmptyPropsOutput(component) ==
  IF component = "SvgPlusMinusSquareIcon" THEN SvgPlusMinusSquareIcon(<<>>)
  ELSE SvgFileIcon(<<>>)

FixedPaths(component) ==
  IF component = "SvgPlusMinusSquareIcon" THEN PlusMinusSquarePaths ELSE FilePaths

(* ------------------------------- claims -------------------------------- *)

(* C1: the <svg> emitted by SvgPlusMinusSquareIcon and SvgFileIcon carries *)
(* the caller's value for every attribute named in props, the default for  *)
(* every default attribute not named in props, and the same <path>         *)
(* children as for empty props.                                            *)
C1_AttributePassThrough ==
  \A i \in DOMAIN renders :
    renders[i].component \in SvgRenderers =>
      LET props == renders[i].props
          out   == renders[i].output
      IN  /\ out.type = "svg"
          /\ \A k \in DOMAIN props \ {"children"} : out.props[k] = props[k]
          /\ \A k \in DOMAIN SvgDefaults \ DOMAIN props : out.props[k] = SvgDefaults[k]
          /\ out.props.children = EmptyPropsOutput(renders[i].component).props.children

C1_Witness ==
  \E i \in DOMAIN renders :
    /\ renders[i].component \in SvgRenderers
    /\ DOMAIN renders[i].props = {"width", "className", "children"}

(* C2 as stated: no document id is referenced twice, counting doc nodes    *)
(* and category link targets together.                                     *)
C2_NoDuplicateDocumentIds ==
  \A e \in DOMAIN sidebarsEvals :
    \A nodes \in {Nodes(sidebarsEvals[e].docsSidebar)} :
      NoDuplicates(DocItemIds(nodes) \o CategoryLinkIds(nodes))

(* C2 amended: no id is listed twice among the doc nodes, none twice among *)
(* the category link targets, and an id that is both is a doc item placed  *)
(* directly inside the category that links to it.                          *)
C2_NoDuplicatesExceptOwnLink ==
  \A e \in DOMAIN sidebarsEvals :
    \A nodes \in {Nodes(sidebarsEvals[e].docsSidebar)} :
      \A docIds \in {DocItemIds(nodes)} :
        /\ NoDuplicates(docIds)
        /\ NoDuplicates(CategoryLinkIds(nodes))
        /\ \A i \in DOMAIN nodes :
             (HasDocLink(nodes[i]) /\ nodes[i].link.id \in Range(docIds)) =>
               \E c \in DOMAIN nodes[i].items :
                 /\ IsDoc(nodes[i].items[c])
                 /\ nodes[i].items[c].id = nodes[i].link.id

C2_Witness ==
  \E e \in DOMAIN sidebarsEvals :
    \A nodes \in {Nodes(sidebarsEvals[e].docsSidebar)} :
      {"llms/index", "tracking/index"}
        \subseteq (Range(DocItemIds(nodes)) \cap Range(CategoryLinkIds(nodes)))

(* C3: every node at every depth is a doc with an id, a category with a    *)
(* label and a non-empty items list, a link with an href and a label, or   *)
(* an autogenerated node with a dirName; only categories have children.    *)
C3_NodeKinds ==
  \A e \in DOMAIN sidebarsEvals :
    \A node \in NodeSet(sidebarsEvals[e].docsSidebar) :
      /\ node.type \in {"doc", "category", "link", "autogenerated"}
      /\ IsDoc(node) => Has(node, "id")
      /\ IsCategory(node) =>
           Has(node, "label") /\ Has(node, "items") /\ node.items # <<>>
      /\ node.type = "link" => Has(node, "href") /\ Has(node, "label")
      /\ node.type = "autogenerated" => Has(node, "dirName")
      /\ Has(node, "items") => IsCategory(node)

C3_Witness ==
  \E e \in DOMAIN sidebarsEvals :
    { node.type : node \in NodeSet(sidebarsEvals[e].docsSidebar) }
      = {"doc", "category", "link", "autogenerated"}

(* C4: the exported docsSidebar lists, in the authored order, index,       *)
(* Getting Started, Machine Learning, Build, Evaluate & Monitor, Deploy,   *)
(* Team Collaboration, API References, More; each of them is the authored  *)
(* node with its children as authored, and the tree has the 83 authored    *)
(* nodes, none dropped or duplicated.                                      *)
C4_OrderPreserved ==
  \A e \in DOMAIN sidebarsEvals :
    LET top == sidebarsEvals[e].docsSidebar
    IN  /\ [i \in DOMAIN top |-> NodeName(top[i])] =
             << "index", "Getting Started", "Machine Learning U+1F9E0",
                "Build U+1F528 ", "Evaluate & Monitor U+1F4CA", "Deploy U+1F680",
                "Team Collaboration U+1F465", "API References", "More" >>
        /\ \E environment \in Environments :
             top = << indexDoc, gettingStarted, machineLearning, build,
                      evaluateAndMonitor, deploy, teamCollaboration,
                      apiReferences(apiReferencePrefix(environment)), more >>
        /\ Len(Nodes(top)) = 83

C4_Witness ==
  \E e \in DOMAIN sidebarsEvals : Len(sidebarsEvals[e].docsSidebar) = 9

ApiReferenceSuffixes ==
  << "api_reference/python_api/index.html", "api_reference/java_api/index.html",
     "api_reference/R-api.html", "api_reference/rest-api.html", "cli.html" >>

ApiReferenceLabels ==
  << "Python API", "Java API", "R API", "REST API", "CLI" >>

C7_StaticConfig ==
  \A i \in DOMAIN configEvals :
    LET c == configEvals[i]
    IN  /\ \A j \in DOMAIN configEvals : configEvals[j] = c
        /\ c.schema = << "./src/graphql/autogenerated_schema.gql" >>
        /\ c.documents = << "src/**/!(*.test).js*", "src/**/!(*.test).ts*" >>
        /\ c.config.scalars =
             [GraphQLAnyValue |-> "any", Long |-> "number", LongString |-> "string",
              StringMap |-> "Record<string, string>", JSON |-> "any",
              WellKnownFieldMask |-> "any", WellKnownTimestamp |-> "any",
              WellKnownDuration |-> "any"]
        /\ c.config.namingConvention.enumValues = "change-case-all#constantCase"
        /\ DOMAIN c.generates = {"src/graphql/__generated__/graphql.ts"}
        /\ c.generates["src/graphql/__generated__/graphql.ts"].plugins =
             << "graphql-codegen-typescript-operation-types", "typescript-operations" >>

C7_Witness ==
  Len(configEvals) >= 2

(* C8: two render invocations of the same component with equal props and  *)
(* ref produce equal output whatever was rendered before or in between,    *)
(* and every <svg> produced carries the component's fixed path elements.   *)
C8_StatelessRendering ==
  /\ \A i, j \in DOMAIN renders :
       ( /\ renders[i].component = renders[j].component
         /\ renders[i].props = renders[j].props
         /\ renders[i].ref = renders[j].ref )
       => renders[i].output = renders[j].output
  /\ \A i \in DOMAIN renders :
       renders[i].component \in SvgRenderers =>
         renders[i].output.props.children = FixedPaths(renders[i].component)

C8_Witness ==
  \E i, j, k \in DOMAIN renders :
    /\ i < j /\ j < k
    /\ renders[i].component \in SvgRenderers
    /\ renders[i].component = renders[k].component
    /\ renders[i].props = renders[k].props
    /\ DOMAIN renders[j].props # DOMAIN renders[i].props

(* C9: the ids of the nodes of type 'doc' are pairwise distinct, and the   *)
(* Quickstart entry under MLflow Tracking, whose page is the doc item      *)
(* getting-started/intro-quickstart/index under Getting Started, is a      *)
(* link with an href.                                                      *)
C9_DocListedOnce ==
  \A e \in DOMAIN sidebarsEvals :
    \A top \in {sidebarsEvals[e].docsSidebar} : \A nodes \in {Nodes(top)} :
        /\ NoDuplicates(DocItemIds(nodes))
        /\ \E c \in DOMAIN top[2].items :
             /\ top[2].label = "Getting Started"
             /\ IsDoc(top[2].items[c])
             /\ top[2].items[c].id = "getting-started/intro-quickstart/index"
        /\ \A i \in DOMAIN nodes :
             (IsCategory(nodes[i]) /\ nodes[i].label = "MLflow Tracking") =>
               /\ \E c \in DOMAIN nodes[i].items :
                    Has(nodes[i].items[c], "label") /\ nodes[i].items[c].label = "Quickstart"
               /\ \A c \in DOMAIN nodes[i].items :
                    (Has(nodes[i].items[c], "label") /\ nodes[i].items[c].label = "Quickstart")
                    => (nodes[i].items[c].type = "link" /\ Has(nodes[i].items[c], "href"))

C9_Witness ==
  \E e \in DOMAIN sidebarsEvals :
    \E node \in NodeSet(sidebarsEvals[e].docsSidebar) :
      /\ IsCategory(node) /\ node.label = "MLflow Tracking"
      /\ \E c \in DOMAIN node.items :
           node.items[c] = [type |-> "link", href |-> "/getting-started/intro-quickstart/",
                            label |-> "Quickstart"]

(* C10: the Icon element returned by PlusMinusSquareIcon and FileIcon has  *)
(* component equal to the wrapper's own SVG renderer even when props has a *)
(* component entry, ref equal to the forwarded ref, and every other caller *)
(* prop unchanged.                                                         *)
C10_ComponentNotOverridable ==
  \A i \in DOMAIN renders :
    renders[i].component \in IconWrappers =>
      LET props == renders[i].props
          out   == renders[i].output
      IN  /\ out.type = "Icon"
          /\ out.props.component = OwnSvg(renders[i].component)
          /\ out.ref = renders[i].ref
          /\ \A k \in DOMAIN props \ {"component"} : out.props[k] = props[k]
          /\ DOMAIN out.props = DOMAIN props \cup {"component"}

C10_Witness ==
  \E i \in DOMAIN renders :
    /\ renders[i].component \in IconWrappers
    /\ DOMAIN renders[i].props = {"className", "component"}
    /\ renders[i].ref = "spanRef"

====
